---- MODULE Spec2Model ----
(***************************************************************************)
(* A model of the ISX web scraper (haideralmesaody/webscraper):           *)
(*   - Scraper.GetStockData: load of the persisted history, navigation,   *)
(*     the pagination loop, the overlap cut, the merge and the price      *)
(*     change calculation (internal/scraper/scraper.go);                  *)
(*   - Scraper.SaveToCSV / Scraper.loadExistingData: the persisted file;  *)
(*   - processSingleTicker and the two processTickerList functions of the *)
(*     repository (cmd/main.go, the one main() calls, and the one of      *)
(*     internal/scraper/scraper.go, which refreshes the browser);         *)
(*   - main with Scraper.PreflightCheck and Scraper.validateConfig;       *)
(*   - utils.PerformanceTracker called by several goroutines              *)
(*     (internal/utils/performance.go).                                   *)
(*                                                                         *)
(* Dates are the numbers 1..MaxDate, a larger number being a later day.   *)
(* The code compares dates for equality only (scraper.go:185, 556), so    *)
(* the order is used by the environment and by the properties alone.      *)
(*                                                                         *)
(* The remote site lists a ticker's rows in remote[t], newest first, and  *)
(* page p of it holds the rows (p-1)*PageSize+1 .. p*PageSize.  The code  *)
(* compares the page length with the literal 25 (scraper.go:201); the     *)
(* model keeps that comparison and scales the number down to PageSize so  *)
(* that listings of several pages stay small.                             *)
(*                                                                         *)
(* Every chromedp.Run is a step whose outcome the environment chooses:    *)
(* "ok", "err" (the action failed, the context is still usable) or        *)
(* "canceled" (the context is canceled: this Run and every later Run on   *)
(* the same context fail with "context canceled").                        *)
(***************************************************************************)
EXTENDS Integers, Sequences, FiniteSets, TLC

\* ------------------------------------------------------------------ bounds
MaxDate == 5
MaxNodes == 3
MaxDuration == 2
MaxSeries == 3
PageSize == 2
MaxPagesCfg == 2
MaxTickers == 6
MaxRetract == 1

\* ------------------------------------------------------- program constants
\* The retries of the documented config.yaml (config.Scraper.Retries).
DefaultRetries == 3
RefreshEvery == 5
FailureBackoff == 10
RefreshBackoff == 30
InterTickerDelay == 10

Tickers == {"A", "B"}
Dates == 1..MaxDate

VARIABLES
    remote,        \* [Tickers -> listing]: the rows the site lists, newest first
    retracted,     \* how many rows the site stopped listing so far
    file,          \* [Tickers -> output/<ticker>_data.csv]
    maxPages,      \* config.Scraper.MaxPages
    mode,          \* "single" (-ticker) or "batch" (-file)
    runner,        \* which processTickerList runs the batch: "main" or "scraper"
    tickers,       \* the ticker list of the batch
    idx,           \* the loop index i of processTickerList (0-based)
    pc,            \* where the program is
    ticker,        \* the ticker processSingleTicker was called with
    sessionAlive,  \* s.ctx is not canceled
    existingData,  \* GetStockData's existingData
    allStockData,  \* GetStockData's allStockData
    currentPage,   \* GetStockData's currentPage
    foundOverlap,  \* GetStockData's foundOverlap
    result,        \* what GetStockData returned: [data, err]
    err,           \* what processSingleTicker returned
    lastSleep,     \* seconds of the last time.Sleep of processTickerList (0: none)
    batchErr,      \* what processTickerList returned
    hist,          \* observations of the current ticker's processing (not program state)
    timeout,       \* config.Scraper.Timeout
    retries,       \* config.Scraper.Retries
    tickerFile,    \* the file named by -file: its lines, each a list of fields
    nodes,         \* the StepTiming values allocated so far; a pointer is an index
    steps,         \* pt.steps: the root steps, in order
    currentStep,   \* pt.currentStep (0: nil)
    aggregates,    \* pt.aggregates: the buckets, by step name
    mu,            \* pt.mu: the thread that holds it (0: unlocked)
    thr,           \* [Threads -> where the thread is in the tracker's code]
    ref,           \* the reference tracker with an explicit stack (not program state)
    handlers,      \* the dialog-handler goroutines started and not yet finished
    closeLog       \* what Scraper.Close did to the session, in order

tracker == <<nodes, steps, currentStep, aggregates, mu, thr, ref>>
session == <<handlers, closeLog>>
scraperState == <<remote, retracted, file, maxPages, mode, runner, tickers, tickerFile, idx, pc, ticker,
                  sessionAlive, existingData, allStockData, currentPage, foundOverlap,
                  result, err, lastSleep, batchErr, hist>>

vars == <<remote, retracted, file, maxPages, mode, runner, tickers, tickerFile, idx, pc, ticker,
          sessionAlive, existingData, allStockData, currentPage, foundOverlap,
          result, err, lastSleep, batchErr, hist, timeout, retries, tracker, session>>

\* ---------------------------------------------------------------- helpers
Max(a, b) == IF a >= b THEN a ELSE b
Min(a, b) == IF a <= b THEN a ELSE b

RECURSIVE Concat(_)
Concat(ss) == IF Len(ss) = 0 THEN <<>> ELSE Head(ss) \o Concat(Tail(ss))

DatesOf(rows) == [k \in 1..Len(rows) |-> rows[k].Date]
NoDuplicates(ds) == \A a, b \in 1..Len(ds) : a # b => ds[a] # ds[b]
StrictlyDecreasing(ds) == \A k \in 1..(Len(ds) - 1) : ds[k] > ds[k + 1]

\* --------------------------------------------------- the site (environment)
\* The texts the site shows for the day d; the close of some days is zero
\* and of some days is not a number.
CloseTable == <<"90", "100", "110", "0", "n/a", "110", "95">>
OpenTable == <<"91", "99", "108">>
VolumeTable == <<"1000", "2500", "0", "40">>
CloseText(d) == CloseTable[((d - 1) % Len(CloseTable)) + 1]
OpenText(d) == OpenTable[((d - 1) % Len(OpenTable)) + 1]
VolumeText(d) == VolumeTable[((d - 1) % Len(VolumeTable)) + 1]

\* A row as chromedp.Evaluate decodes it into StockData: the eight texts of
\* the table row; Change and ChangePerc keep Go's zero value.
Zero == [num |-> 0, den |-> 1]
PageRow(d) ==
    [Date |-> d, OpenPrice |-> OpenText(d), HighPrice |-> CloseText(d + 1),
     LowPrice |-> OpenText(d + 1), ClosePrice |-> CloseText(d),
     Volume |-> VolumeText(d), TotalShares |-> VolumeText(d + 1),
     NumTrades |-> VolumeText(d + 2), Change |-> 0, ChangePerc |-> Zero]

\* Page p of a listing, as the rows of table #dispTable.
PageOf(listing, p) ==
    LET from == (p - 1) * PageSize + 1
        to == Min(p * PageSize, Len(listing))
    IN  [k \in 1..Max(to - from + 1, 0) |-> PageRow(listing[from + k - 1])]

RunOutcomes == IF sessionAlive THEN {"ok", "err", "canceled"} ELSE {"canceled"}
Cause(r) == IF r = "canceled" THEN "context canceled" ELSE "other"

\* ----------------------------------------------------------------- errors
\* An error value: the message GetStockData / SaveToCSV wraps around the
\* cause; err.Error() is "<msg>: <cause>".  Nil is Go's nil error.
Nil == [msg |-> "", cause |-> ""]
Err(msg, cause) == [msg |-> msg, cause |-> cause]
NavCanceled == Err("failed to navigate", "context canceled")

\* ------------------------------------------------------ pure functions
\* strconv.ParseFloat on the texts the site shows.
ParseFloat(s) ==
    CASE s = "90" -> [ok |-> TRUE, val |-> 90]
      [] s = "95" -> [ok |-> TRUE, val |-> 95]
      [] s = "100" -> [ok |-> TRUE, val |-> 100]
      [] s = "110" -> [ok |-> TRUE, val |-> 110]
      [] s = "0" -> [ok |-> TRUE, val |-> 0]
      [] OTHER -> [ok |-> FALSE, val |-> 0]

\* Mutant of findOverlap: the oldest existing date is looked for.
findOverlap_OldestDate(existing, newData) ==
    IF Len(existing) = 0 \/ Len(newData) = 0
    THEN FALSE
    ELSE \E k \in 1..Len(newData) : newData[k].Date = existing[Len(existing)].Date

\* Scraper.findOverlap: the most recent existing date is among the new rows.
findOverlap(existing, newData) ==
    IF Len(existing) = 0 \/ Len(newData) = 0
    THEN FALSE
    ELSE \E k \in 1..Len(newData) : newData[k].Date = existing[1].Date

\* Mutant of CutAtOverlap: pageData[:i+1], the row of the head is kept.
CutAtOverlap_KeepsHead(existing, pageData) ==
    LET hits == {k \in 1..Len(pageData) : pageData[k].Date = existing[1].Date}
    IN  IF hits = {}
        THEN pageData
        ELSE SubSeq(pageData, 1, CHOOSE k \in hits : \A j \in hits : k <= j)

\* The cut of scraper.go:184-189: pageData[:i] for the first i whose date is
\* the existing head (Go's i is 0-based: the rows before it are kept).
CutAtOverlap(existing, pageData) ==
    LET hits == {k \in 1..Len(pageData) : pageData[k].Date = existing[1].Date}
    IN  IF hits = {}
        THEN pageData
        ELSE SubSeq(pageData, 1, (CHOOSE k \in hits : \A j \in hits : k <= j) - 1)

\* Mutant of calculatePriceChanges: the percentage is taken of the current
\* close instead of the previous one.
calculatePriceChanges_PercentOfCurrent(data) ==
    IF Len(data) < 2
    THEN data
    ELSE [i \in 1..Len(data) |->
            IF i = Len(data)
            THEN data[i]
            ELSE LET cur == ParseFloat(data[i].ClosePrice)
                     prev == ParseFloat(data[i + 1].ClosePrice)
                 IN  IF ~cur.ok \/ ~prev.ok
                     THEN data[i]
                     ELSE [data[i] EXCEPT
                             !.Change = cur.val - prev.val,
                             !.ChangePerc =
                                 IF cur.val # 0
                                 THEN [num |-> (cur.val - prev.val) * 100,
                                       den |-> cur.val]
                                 ELSE @]]

\* Scraper.calculatePriceChanges.  A float64 that is a quotient is kept as
\* the exact fraction num/den; Change is a difference of parsed closes.
\* Iteration i writes data[i] alone and reads only ClosePrice, which no
\* iteration writes, so the loop is this pointwise map.
calculatePriceChanges(data) ==
    IF Len(data) < 2
    THEN data
    ELSE [i \in 1..Len(data) |->
            IF i = Len(data)
            THEN data[i]
            ELSE LET cur == ParseFloat(data[i].ClosePrice)
                     prev == ParseFloat(data[i + 1].ClosePrice)
                 IN  IF ~cur.ok \/ ~prev.ok
                     THEN data[i]
                     ELSE [data[i] EXCEPT
                             !.Change = cur.val - prev.val,
                             !.ChangePerc =
                                 IF prev.val # 0
                                 THEN [num |-> (cur.val - prev.val) * 100,
                                       den |-> prev.val]
                                 ELSE @]]

\* ------------------------------------------------------- the persisted file
\* a \div b rounded to the nearest integer (b > 0), ties to even.
RoundDiv(a, b) ==
    LET q == a \div b
        r == a % b
    IN  IF 2 * r > b THEN q + 1
        ELSE IF 2 * r < b THEN q
        ELSE IF q % 2 = 0 THEN q ELSE q + 1

\* fmt.Sprintf("%.3f", x) and fmt.Sprintf("%.2f%%", x): the text is given
\* by its digits (the value in thousandths, in hundredths) and its suffix.
FormatChange(x) == [places |-> 3, digits |-> x * 1000, suffix |-> ""]
FormatChangePerc(x) ==
    [places |-> 2, digits |-> RoundDiv(x.num * 100, x.den), suffix |-> "%"]

Headers == <<"Date", "Open", "High", "Low", "Close", "Change", "Change%",
             "Volume", "T.Shares", "Trades">>

\* Mutant of CsvRecord: the columns Open and High are written in the other
\* order than loadExistingData reads them.
CsvRecord_SwapsOpenHigh(record) ==
    <<record.Date, record.HighPrice, record.OpenPrice, record.LowPrice,
      record.ClosePrice, FormatChange(record.Change),
      FormatChangePerc(record.ChangePerc), record.Volume,
      record.TotalShares, record.NumTrades>>

\* The CSV record SaveToCSV writes for one row.
CsvRecord(record) ==
    <<record.Date, record.OpenPrice, record.HighPrice, record.LowPrice,
      record.ClosePrice, FormatChange(record.Change),
      FormatChangePerc(record.ChangePerc), record.Volume,
      record.TotalShares, record.NumTrades>>

\* No file is named by -file.
NoTickerFile == <<>>

NoFile == [exists |-> FALSE, header |-> <<>>, records |-> <<>>]

\* The file SaveToCSV leaves when every write succeeds.
WrittenFile(data) ==
    [exists |-> TRUE, header |-> Headers,
     records |-> [k \in 1..Len(data) |-> CsvRecord(data[k])]]

\* A loadExistingData that reads Volume and T.Shares from each other's
\* column.
loadExistingData_SwapsVolumeShares(f) ==
    IF ~f.exists
    THEN <<>>
    ELSE [k \in 1..Len(f.records) |->
            [Date |-> f.records[k][1], OpenPrice |-> f.records[k][2],
             HighPrice |-> f.records[k][3], LowPrice |-> f.records[k][4],
             ClosePrice |-> f.records[k][5], Volume |-> f.records[k][9],
             TotalShares |-> f.records[k][8], NumTrades |-> f.records[k][10],
             Change |-> 0, ChangePerc |-> Zero]]

\* Scraper.loadExistingData on a readable file: nil when the file does not
\* exist; the header is skipped and the columns 5 and 6 (Change, Change%)
\* are not read.
loadExistingData(f) ==
    IF ~f.exists
    THEN <<>>
    ELSE [k \in 1..Len(f.records) |->
            [Date |-> f.records[k][1], OpenPrice |-> f.records[k][2],
             HighPrice |-> f.records[k][3], LowPrice |-> f.records[k][4],
             ClosePrice |-> f.records[k][5], Volume |-> f.records[k][8],
             TotalShares |-> f.records[k][9], NumTrades |-> f.records[k][10],
             Change |-> 0, ChangePerc |-> Zero]]

FileDates(f) == [k \in 1..Len(f.records) |-> f.records[k][1]]

\* ------------------------------------------------------------ observations
\* What the properties need to know about the processing of the current
\* ticker; the program reads none of it.
FreshHist(f) ==
    [fileBefore |-> f,        \* the ticker's file when GetStockData started
     rawPages |-> <<>>,       \* the pages evaluated, as decoded, in order
     evals |-> 0,             \* page evaluations issued
     nexts |-> 0,             \* advance-to-next-page calls issued
     evalFailed |-> 0,        \* the page whose evaluation failed (0: none)
     nextFailed |-> 0,        \* the page the failed advance was issued on
     navFailed |-> "",        \* the outcome of a failed navigation
     saveInvoked |-> FALSE,   \* SaveToCSV was called
     refresh |-> "none",      \* refreshBrowser in this iteration: none, ok, failed
     refreshKind |-> "none",  \* proactive or reactive
     navPending |-> FALSE,    \* an entity failed on a canceled context and
                              \* refreshBrowser was not called since
     probeFailed |-> FALSE,   \* the probe of the last refreshBrowser failed
     loadFailed |-> FALSE,    \* loadExistingData returned an error
     reportSteps |-> {},      \* the step names of the aggregate report logged
                              \* at the end of the batch
     failedLogged |-> FALSE]  \* "Failed to process ticker" was logged

\* ----------------------------------------------------------- GetStockData
cfg == <<maxPages, mode, runner, tickers, tickerFile>>
loop == <<idx, lastSleep, batchErr>>

\* Mutant of Return: processSingleTicker goes on to SaveToCSV whatever
\* GetStockData returned.
Return_IgnoresError(data, e, h) ==
    /\ result' = [data |-> data, err |-> e]
    /\ err' = e
    /\ pc' = "save"
    /\ hist' = h

\* GetStockData returns (data, e) to processSingleTicker, which returns e
\* when it is not nil (scraper.go:413-417) and calls SaveToCSV otherwise.
Return(data, e, h) ==
    /\ result' = [data |-> data, err |-> e]
    /\ err' = e
    /\ pc' = IF e = Nil THEN "save" ELSE "ret"
    /\ hist' = h

\* Mutant of Finish: the existing rows are put in front of the fetched ones.
Finish_ExistingFirst(all, ov, h) ==
    LET merged == IF Len(existingData) > 0 THEN existingData \o all ELSE all
        annotated == calculatePriceChanges(merged)
    IN  /\ Return(annotated, Nil, h)
        /\ allStockData' = annotated
        /\ foundOverlap' = ov
        /\ UNCHANGED currentPage

\* scraper.go:232-240: the existing rows are appended when there are any and
\* the changes are calculated over the whole.
Finish(all, ov, h) ==
    LET merged == IF Len(existingData) > 0 THEN all \o existingData ELSE all
        annotated == calculatePriceChanges(merged)
    IN  /\ Return(annotated, Nil, h)
        /\ allStockData' = annotated
        /\ foundOverlap' = ov
        /\ UNCHANGED currentPage

\* scraper.go:50-56: the existing data is loaded.  The Run that blocks the
\* images (59-78) and the dialog listener (84-95) change nothing the
\* program reads later: a failure there is logged and ignored.
GsdLoad ==
    /\ pc = "load"
    /\ existingData' = loadExistingData(file[ticker])
    /\ pc' = "nav"
    /\ UNCHANGED <<remote, retracted, file, cfg, loop, ticker, sessionAlive, allStockData,
                   currentPage, foundOverlap, result, err, hist>>
    /\ UNCHANGED <<timeout, retries, tracker, session>>

\* scraper.go:97-104: navigate and wait for the body.
GsdNavigate ==
    /\ pc = "nav"
    /\ \E r \in RunOutcomes :
        /\ sessionAlive' = (sessionAlive /\ r # "canceled")
        /\ IF r = "ok"
           THEN /\ pc' = "setup"
                /\ UNCHANGED <<result, err, hist>>
           ELSE Return(<<>>, Err("failed to navigate", Cause(r)),
                       [hist EXCEPT !.navFailed = r,
                                    !.navPending = @ \/ r = "canceled"])
    /\ UNCHANGED <<remote, retracted, file, cfg, loop, ticker, existingData, allStockData,
                   currentPage, foundOverlap>>
    /\ UNCHANGED <<timeout, retries, tracker, session>>

\* scraper.go:106-134: the date range is set and the search triggered; then
\* the loop variables are initialised.
GsdSetDateRange ==
    /\ pc = "setup"
    /\ \E r \in RunOutcomes :
        /\ sessionAlive' = (sessionAlive /\ r # "canceled")
        /\ IF r = "ok"
           THEN /\ pc' = "eval"
                /\ allStockData' = <<>>
                /\ currentPage' = 1
                /\ foundOverlap' = FALSE
                /\ UNCHANGED <<result, err, hist>>
           ELSE /\ Return(<<>>, Err("failed to set date range", Cause(r)), hist)
                /\ UNCHANGED <<allStockData, currentPage, foundOverlap>>
    /\ UNCHANGED <<remote, retracted, file, cfg, loop, ticker, existingData>>
    /\ UNCHANGED <<timeout, retries, tracker, session>>

\* Mutant of LoopBody: a page shorter than the page size does not end the
\* loop.
LoopBody_IgnoresShortPage(pageData, h) ==
    IF Len(pageData) = 0
    THEN Finish(allStockData, foundOverlap, h)
    ELSE LET ov == Len(existingData) > 0 /\ findOverlap(existingData, pageData)
             kept == IF ov THEN CutAtOverlap(existingData, pageData) ELSE pageData
             all == allStockData \o kept
         IN  IF ov THEN Finish(all, TRUE, h)
             ELSE IF currentPage >= maxPages THEN Finish(all, FALSE, h)
             ELSE /\ pc' = "next"
                  /\ allStockData' = all
                  /\ hist' = h
                  /\ UNCHANGED <<currentPage, foundOverlap, result, err>>

\* Mutant of LoopBody: the loop goes on to the next page when currentPage
\* reached maxPages.
LoopBody_IgnoresMaxPages(pageData, h) ==
    IF Len(pageData) = 0
    THEN Finish(allStockData, foundOverlap, h)
    ELSE LET ov == Len(existingData) > 0 /\ findOverlap(existingData, pageData)
             kept == IF ov THEN CutAtOverlap(existingData, pageData) ELSE pageData
             all == allStockData \o kept
         IN  IF ov THEN Finish(all, TRUE, h)
             ELSE IF Len(kept) < PageSize THEN Finish(all, FALSE, h)
             ELSE /\ pc' = "next"
                  /\ allStockData' = all
                  /\ hist' = h
                  /\ UNCHANGED <<currentPage, foundOverlap, result, err>>

\* Mutant of LoopBody: the page is cut at the overlap but the loop ends
\* only for a short page or at maxPages.
LoopBody_ContinuesAfterOverlap(pageData, h) ==
    IF Len(pageData) = 0
    THEN Finish(allStockData, foundOverlap, h)
    ELSE LET ov == Len(existingData) > 0 /\ findOverlap(existingData, pageData)
             kept == IF ov THEN CutAtOverlap(existingData, pageData) ELSE pageData
             all == allStockData \o kept
         IN  IF Len(pageData) < PageSize THEN Finish(all, ov, h)
             ELSE IF currentPage >= maxPages THEN Finish(all, ov, h)
             ELSE /\ pc' = "next"
                  /\ allStockData' = all
                  /\ hist' = h
                  /\ UNCHANGED <<currentPage, foundOverlap, result, err>>

\* Mutant of LoopBody: an empty page ends the fetch without the rows of the
\* pages before it.
LoopBody_EmptyPageDropsRows(pageData, h) ==
    IF Len(pageData) = 0
    THEN Finish(<<>>, foundOverlap, h)
    ELSE LET ov == Len(existingData) > 0 /\ findOverlap(existingData, pageData)
             kept == IF ov THEN CutAtOverlap(existingData, pageData) ELSE pageData
             all == allStockData \o kept
         IN  IF ov THEN Finish(all, TRUE, h)
             ELSE IF Len(kept) < PageSize THEN Finish(all, FALSE, h)
             ELSE IF currentPage >= maxPages THEN Finish(all, FALSE, h)
             ELSE /\ pc' = "next"
                  /\ allStockData' = all
                  /\ hist' = h
                  /\ UNCHANGED <<currentPage, foundOverlap, result, err>>

\* scraper.go:165-208: the loop body after a page was decoded, up to the
\* next chromedp.Run.
LoopBody(pageData, h) ==
    IF Len(pageData) = 0
    THEN Finish(allStockData, foundOverlap, h)
    ELSE LET ov == Len(existingData) > 0 /\ findOverlap(existingData, pageData)
             kept == IF ov THEN CutAtOverlap(existingData, pageData) ELSE pageData
             all == allStockData \o kept
         IN  IF ov THEN Finish(all, TRUE, h)
             ELSE IF Len(kept) < PageSize THEN Finish(all, FALSE, h)
             ELSE IF currentPage >= maxPages THEN Finish(all, FALSE, h)
             ELSE /\ pc' = "next"
                  /\ allStockData' = all
                  /\ hist' = h
                  /\ UNCHANGED <<currentPage, foundOverlap, result, err>>

\* scraper.go:136-208: the loop condition, the evaluation of the page's rows
\* and the loop body.
GsdEvalPage ==
    /\ pc = "eval"
    /\ IF currentPage <= maxPages /\ ~foundOverlap
       THEN \E r \in RunOutcomes :
            /\ sessionAlive' = (sessionAlive /\ r # "canceled")
            /\ IF r = "ok"
               THEN LET pageData == PageOf(remote[ticker], currentPage)
                    IN  LoopBody(pageData,
                                 [hist EXCEPT !.evals = @ + 1,
                                              !.rawPages = Append(@, pageData)])
               ELSE /\ Return(<<>>, Err("failed to extract data from page", Cause(r)),
                              [hist EXCEPT !.evals = @ + 1,
                                           !.evalFailed = currentPage])
                    /\ UNCHANGED <<allStockData, currentPage, foundOverlap>>
       ELSE /\ Finish(allStockData, foundOverlap, hist)
            /\ UNCHANGED sessionAlive
    /\ UNCHANGED <<remote, retracted, file, cfg, loop, ticker, existingData>>
    /\ UNCHANGED <<timeout, retries, tracker, session>>

\* scraper.go:210-229: the advance to the next page.  A failure is printed
\* and breaks out of the loop; the function then goes on to merge and
\* return what it has.
GsdNextPage ==
    /\ pc = "next"
    /\ \E r \in RunOutcomes :
        /\ sessionAlive' = (sessionAlive /\ r # "canceled")
        /\ IF r = "ok"
           THEN /\ currentPage' = currentPage + 1
                /\ pc' = "eval"
                /\ hist' = [hist EXCEPT !.nexts = @ + 1]
                /\ UNCHANGED <<allStockData, foundOverlap, result, err>>
           ELSE Finish(allStockData, foundOverlap,
                       [hist EXCEPT !.nexts = @ + 1, !.nextFailed = currentPage])
    /\ UNCHANGED <<remote, retracted, file, cfg, loop, ticker, existingData>>
    /\ UNCHANGED <<timeout, retries, tracker, session>>

\* A SaveToCSV without the test for an empty slice: a file with the header
\* alone is written.
SaveToCSV_WritesHeaderAlone ==
    /\ pc = "save"
    /\ hist' = [hist EXCEPT !.saveInvoked = TRUE]
    /\ \E created \in BOOLEAN :
            IF created
            THEN /\ file' = [file EXCEPT ![ticker] = WrittenFile(result.data)]
                 /\ err' = Nil
            ELSE /\ err' = Err("failed to create CSV file", "other")
                 /\ UNCHANGED file
    /\ pc' = "ret"
    /\ UNCHANGED <<remote, retracted, cfg, loop, ticker, sessionAlive, existingData,
                   allStockData, currentPage, foundOverlap, result>>
    /\ UNCHANGED <<timeout, retries, tracker, session>>

\* Scraper.SaveToCSV as processSingleTicker calls it (scraper.go:419-427).
\* Without rows it fails before it touches the file system; MkdirAll or
\* os.Create may fail, which leaves the file as it was; otherwise the file
\* is truncated and the header and every row are written.
SaveToCSV ==
    /\ pc = "save"
    /\ hist' = [hist EXCEPT !.saveInvoked = TRUE]
    /\ IF Len(result.data) = 0
       THEN /\ err' = Err("no data to save", "")
            /\ UNCHANGED file
       ELSE \E created \in BOOLEAN :
            IF created
            THEN /\ file' = [file EXCEPT ![ticker] = WrittenFile(result.data)]
                 /\ err' = Nil
            ELSE /\ err' = Err("failed to create CSV file", "other")
                 /\ UNCHANGED file
    /\ pc' = "ret"
    /\ UNCHANGED <<remote, retracted, cfg, loop, ticker, sessionAlive, existingData,
                   allStockData, currentPage, foundOverlap, result>>
    /\ UNCHANGED <<timeout, retries, tracker, session>>

\* ------------------------------------------- utils.PerformanceTracker
\* The goroutines that call the tracker, and the step names they use.
Threads == {1, 2}
StepNames == {"fetch", "decode"}

\* A StepTiming as StartStep allocates it (performance.go:49-52): Duration
\* and SubSteps keep Go's zero value.  StartTime is not kept: the code
\* reads it for time.Since alone, whose value the environment chooses.
StepTiming(name) == [Name |-> name, Duration |-> 0, SubSteps |-> <<>>]

\* A thread outside the tracker's code.
Idle == [pc |-> "idle", name |-> "", roots |-> <<>>, out |-> <<>>]

\* NewPerformanceTracker (performance.go:37-42), with no thread in the
\* tracker's code; the reference tracker starts with an empty stack.
NewPerformanceTracker ==
    /\ nodes = <<>>
    /\ steps = <<>>
    /\ currentStep = 0
    /\ aggregates = [n \in {} |-> 0]
    /\ mu = 0
    /\ thr = [t \in Threads |-> Idle]
    /\ ref = [stack |-> <<>>, parent |-> <<>>, closed |-> {}]

\* ------------------------------------------------ main: a single ticker
Listing(h) == [k \in 1..h |-> h + 1 - k]

\* The state before the program is started for the first time, but for the
\* file named by -file.
InitCommonBut ==
    /\ file = [t \in Tickers |-> NoFile]
    /\ maxPages = 1
    /\ mode = "single"
    /\ runner = "main"
    /\ tickers = <<>>
    /\ idx = 0
    /\ pc = "off"
    /\ sessionAlive = TRUE
    /\ existingData = <<>>
    /\ allStockData = <<>>
    /\ currentPage = 1
    /\ foundOverlap = FALSE
    /\ result = [data |-> <<>>, err |-> Nil]
    /\ err = Nil
    /\ lastSleep = 0
    /\ batchErr = Nil
    /\ hist = FreshHist(NoFile)
    /\ timeout = 1
    /\ retries = DefaultRetries
    /\ NewPerformanceTracker
    /\ handlers = 0
    /\ closeLog = <<>>

InitCommon == InitCommonBut /\ tickerFile = NoTickerFile

\* The single-ticker runs are runs of one ticker, chosen here; the site
\* lists nothing yet.
Init ==
    /\ InitCommon
    /\ ticker \in Tickers
    /\ remote = [t \in Tickers |-> <<>>]
    /\ retracted = 0

\* The process ended: what it held in memory is as before a start.
ProcessMemoryGone ==
    /\ sessionAlive' = TRUE
    /\ existingData' = <<>>
    /\ allStockData' = <<>>
    /\ currentPage' = 1
    /\ foundOverlap' = FALSE
    /\ result' = [data |-> <<>>, err |-> Nil]
    /\ err' = Nil
    /\ hist' = FreshHist(NoFile)

\* main.go:163-191 with -ticker: the configuration is loaded, the browser
\* is launched (initializeScraper returns only when its probe succeeded)
\* and processSingleTicker is called.
StartSingle ==
    /\ pc = "off"
    /\ \E mp \in 1..MaxPagesCfg : maxPages' = mp
    /\ hist' = FreshHist(file[ticker])
    /\ mode' = "single"
    /\ sessionAlive' = TRUE
    /\ pc' = "load"
    /\ UNCHANGED <<remote, retracted, file, runner, tickers, tickerFile, loop, ticker,
                   existingData, allStockData, currentPage, foundOverlap,
                   result, err>>
    /\ UNCHANGED <<timeout, retries, tracker, session>>

\* main.go:188-213: processSingleTicker returned and the program ends
\* (through logger.Fatal when the error is not nil).
SingleExit ==
    /\ pc = "ret"
    /\ mode = "single"
    /\ pc' = "off"
    /\ ProcessMemoryGone
    /\ UNCHANGED <<remote, retracted, file, cfg, loop, ticker>>
    /\ UNCHANGED <<timeout, retries, tracker, session>>

\* The site gains the row of the next day, between two runs of the program.
RemoteGain ==
    /\ pc = "off"
    /\ LET d == IF Len(remote[ticker]) = 0 THEN 1 ELSE remote[ticker][1] + 1
       IN  /\ d <= MaxDate
           /\ remote' = [remote EXCEPT ![ticker] = <<d>> \o @]
    /\ UNCHANGED <<retracted, file, cfg, loop, pc, ticker, sessionAlive, existingData,
                   allStockData, currentPage, foundOverlap, result, err, hist>>
    /\ UNCHANGED <<timeout, retries, tracker, session>>

\* The site stops listing a row (a correction of its history), between two
\* runs of the program.
RemoteRetract ==
    /\ pc = "off"
    /\ retracted < MaxRetract
    /\ retracted' = retracted + 1
    /\ \E k \in 1..MaxDate :
        /\ k <= Len(remote[ticker])
        /\ remote' = [remote EXCEPT ![ticker] =
                         SubSeq(@, 1, k - 1) \o SubSeq(@, k + 1, Len(@))]
    /\ UNCHANGED <<file, cfg, loop, pc, ticker, sessionAlive, existingData,
                   allStockData, currentPage, foundOverlap, result, err, hist>>
    /\ UNCHANGED <<timeout, retries, tracker, session>>

\* ------------------------------------------------- main: a ticker list
\* Scraper.refreshBrowser with the outcome r of its probe: the old context
\* is canceled and s.ctx is the new one whether or not the probe succeeded.
refreshBrowser(r) == sessionAlive' = (r # "canceled")

\* The ticker list of n entries the batch is run with: the tickers in turn,
\* so that a ticker comes back later in the list.
TickerList(n) == [k \in 1..n |-> IF k % 2 = 1 THEN "A" ELSE "B"]

\* main.go:193-200 with -file: the list is read and processTickerList is
\* called.  The repository holds two functions of that name: the one of
\* cmd/main.go, which main() calls, and the one of
\* internal/scraper/scraper.go, which refreshes the browser.
StartBatch ==
    /\ pc = "off"
    /\ \E n \in 0..MaxTickers, rn \in {"main", "scraper"}, mp \in 1..MaxPagesCfg :
        /\ tickers' = TickerList(n)
        /\ runner' = rn
        /\ maxPages' = mp
    /\ retries' \in {0, DefaultRetries}
    /\ mode' = "batch"
    /\ idx' = 0
    /\ pc' = "iter"
    /\ UNCHANGED <<remote, retracted, file, lastSleep, batchErr, ticker,
                   sessionAlive, existingData, allStockData, currentPage,
                   foundOverlap, result, err, hist>>
    /\ UNCHANGED <<timeout, tickerFile, tracker, session>>

\* The head of one iteration of processTickerList (main.go:64-67,
\* scraper.go:435-448), or its end (main.go:80-85, scraper.go:468-473).
\* At the end GenerateAggregateReport is logged; it writes one entry for
\* each bucket of pt.aggregates.  Neither GetStockData nor SaveToCSV nor
\* any other function of the program calls StartStep or EndStep, so the
\* tracker is as NewPerformanceTracker left it.
\* In scraper.go the browser is refreshed before the tickers 6, 11, ...;
\* when that fails the loop sleeps 30 s and continues with the next ticker.
BatchIter ==
    /\ pc = "iter"
    /\ mode = "batch"
    /\ IF idx >= Len(tickers)
       THEN /\ batchErr' = Nil
            /\ pc' = "exited"
            /\ hist' = [hist EXCEPT !.reportSteps = DOMAIN aggregates]
            /\ UNCHANGED <<idx, lastSleep, ticker, sessionAlive>>
       ELSE LET t == tickers[idx + 1]
                h == [FreshHist(file[t]) EXCEPT !.navPending = hist.navPending,
                                                !.probeFailed = hist.probeFailed]
            IN  IF runner = "scraper" /\ idx > 0 /\ idx % RefreshEvery = 0
                THEN \E r \in {"ok", "err", "canceled"} :
                     /\ refreshBrowser(r)
                     /\ IF r = "ok"
                        THEN /\ ticker' = t
                             /\ pc' = "load"
                             /\ hist' = [h EXCEPT !.refresh = "ok",
                                                  !.refreshKind = "proactive",
                                                  !.navPending = FALSE,
                                                  !.probeFailed = FALSE]
                             /\ UNCHANGED <<idx, lastSleep, batchErr>>
                        ELSE /\ lastSleep' = RefreshBackoff
                             /\ idx' = idx + 1
                             /\ hist' = [h EXCEPT !.refresh = "failed",
                                                  !.refreshKind = "proactive",
                                                  !.navPending = FALSE,
                                                  !.probeFailed = TRUE]
                             /\ UNCHANGED <<pc, ticker, batchErr>>
                ELSE /\ ticker' = t
                     /\ pc' = "load"
                     /\ hist' = h
                     /\ UNCHANGED <<idx, lastSleep, batchErr, sessionAlive>>
    /\ UNCHANGED <<remote, retracted, file, cfg, existingData, allStockData,
                   currentPage, foundOverlap, result, err>>
    /\ UNCHANGED <<timeout, retries, tracker, session>>

\* Mutant of BatchAfter: the error of a ticker is returned from
\* processTickerList.
BatchAfter_ReturnsError ==
    /\ pc = "ret"
    /\ mode = "batch"
    /\ IF err # Nil
       THEN /\ batchErr' = err
            /\ pc' = "exited"
            /\ hist' = [hist EXCEPT !.failedLogged = TRUE]
            /\ UNCHANGED <<idx, lastSleep>>
       ELSE /\ lastSleep' = IF idx < Len(tickers) - 1 THEN InterTickerDelay ELSE 0
            /\ idx' = idx + 1
            /\ pc' = "iter"
            /\ UNCHANGED <<batchErr, hist>>
    /\ UNCHANGED <<remote, retracted, file, cfg, ticker, sessionAlive,
                   existingData, allStockData, currentPage, foundOverlap,
                   result, err>>
    /\ UNCHANGED <<timeout, retries, tracker, session>>

\* Mutant of BatchAfter: the browser is refreshed after every failure.
BatchAfter_RefreshesOnAnyError ==
    /\ pc = "ret"
    /\ mode = "batch"
    /\ IF err # Nil
       THEN /\ \E r \in {"ok", "err", "canceled"} :
                    /\ refreshBrowser(r)
                    /\ hist' = [hist EXCEPT
                                  !.failedLogged = TRUE,
                                  !.refresh = IF r = "ok" THEN "ok" ELSE "failed",
                                  !.refreshKind = "reactive",
                                  !.navPending = FALSE,
                                  !.probeFailed = (r # "ok")]
            /\ lastSleep' = FailureBackoff
       ELSE /\ lastSleep' = IF idx < Len(tickers) - 1 THEN InterTickerDelay ELSE 0
            /\ UNCHANGED <<sessionAlive, hist>>
    /\ idx' = idx + 1
    /\ pc' = "iter"
    /\ UNCHANGED <<remote, retracted, file, cfg, batchErr, ticker, existingData,
                   allStockData, currentPage, foundOverlap, result, err>>
    /\ UNCHANGED <<timeout, retries, tracker, session>>

\* A list runner that fetches a failed entity again when retries are
\* configured.
BatchAfter_RetriesFailedEntity ==
    /\ pc = "ret"
    /\ mode = "batch"
    /\ IF err # Nil
       THEN /\ hist' = [hist EXCEPT !.failedLogged = TRUE]
            /\ lastSleep' = FailureBackoff
            /\ idx' = IF retries > 0 THEN idx ELSE idx + 1
       ELSE /\ lastSleep' = IF idx < Len(tickers) - 1 THEN InterTickerDelay ELSE 0
            /\ idx' = idx + 1
            /\ UNCHANGED hist
    /\ pc' = "iter"
    /\ UNCHANGED <<remote, retracted, file, cfg, batchErr, ticker, existingData,
                   allStockData, currentPage, foundOverlap, result, err, sessionAlive>>
    /\ UNCHANGED <<timeout, retries, tracker, session>>

\* The rest of the iteration, after processSingleTicker returned
\* (main.go:68-77, scraper.go:449-465).
BatchAfter ==
    /\ pc = "ret"
    /\ mode = "batch"
    /\ IF err # Nil
       THEN /\ IF runner = "scraper" /\ err = NavCanceled
               THEN \E r \in {"ok", "err", "canceled"} :
                    /\ refreshBrowser(r)
                    /\ hist' = [hist EXCEPT
                                  !.failedLogged = TRUE,
                                  !.refresh = IF r = "ok" THEN "ok" ELSE "failed",
                                  !.refreshKind = "reactive",
                                  !.navPending = FALSE,
                                  !.probeFailed = (r # "ok")]
               ELSE /\ hist' = [hist EXCEPT !.failedLogged = TRUE]
                    /\ UNCHANGED sessionAlive
            /\ lastSleep' = FailureBackoff
       ELSE /\ lastSleep' = IF idx < Len(tickers) - 1 THEN InterTickerDelay ELSE 0
            /\ UNCHANGED <<sessionAlive, hist>>
    /\ idx' = idx + 1
    /\ pc' = "iter"
    /\ UNCHANGED <<remote, retracted, file, cfg, batchErr, ticker, existingData,
                   allStockData, currentPage, foundOverlap, result, err>>
    /\ UNCHANGED <<timeout, retries, tracker, session>>

GetStockData == GsdLoad \/ GsdNavigate \/ GsdSetDateRange \/ GsdEvalPage \/ GsdNextPage
processSingleTicker == GetStockData \/ SaveToCSV

\* Runs of the program for single tickers against a site that only gains
\* newer rows.
Next == StartSingle \/ processSingleTicker \/ SingleExit \/ RemoteGain
Spec == Init /\ [][Next]_vars

\* The same, against a site that may also stop listing rows.
NextCorrections == Next \/ RemoteRetract
SpecCorrections == Init /\ [][NextCorrections]_vars

\* One run of the program over a ticker list; the site lists nothing or a
\* full page and one row more for a ticker, and that does not change during
\* the run.
InitBatch ==
    /\ InitCommon
    /\ ticker = "A"
    /\ remote \in [Tickers -> {Listing(h) : h \in {0, PageSize + 1}}]
    /\ retracted = 0

processTickerList == BatchIter \/ BatchAfter
NextBatch == StartBatch \/ processSingleTicker \/ processTickerList
SpecBatch == InitBatch /\ [][NextBatch]_vars

\* ------------------------------------------- faults of the file system
\* scraper.go:50-56 when loadExistingData returns an error (os.Open fails,
\* or the csv reader fails on the header or on a record, scraper.go:513-529):
\* the error is logged, existingData is nil and the fetch goes on.
GsdLoadFails ==
    /\ pc = "load"
    /\ file[ticker].exists
    /\ existingData' = <<>>
    /\ hist' = [hist EXCEPT !.loadFailed = TRUE]
    /\ pc' = "nav"
    /\ UNCHANGED <<remote, retracted, file, cfg, loop, ticker, sessionAlive, allStockData,
                   currentPage, foundOverlap, result, err>>
    /\ UNCHANGED <<timeout, retries, tracker, session>>

\* What the file holds when the process ends inside SaveToCSV after
\* os.Create truncated it (scraper.go:256): nothing, or the header and the
\* first records, as far as the buffered csv.Writer wrote them through
\* (the deferred Flush and Close, scraper.go:260-264, do not run).
CrashedFiles(data) ==
    {[exists |-> TRUE, header |-> <<>>, records |-> <<>>]}
    \cup {[exists |-> TRUE, header |-> Headers,
           records |-> [k \in 1..n |-> CsvRecord(data[k])]] : n \in 0..Len(data)}

\* The process is killed inside SaveToCSV, after os.Create.
SaveCrash ==
    /\ pc = "save"
    /\ Len(result.data) > 0
    /\ file' \in {[file EXCEPT ![ticker] = f] : f \in CrashedFiles(result.data)}
    /\ hist' = [hist EXCEPT !.saveInvoked = TRUE]
    /\ pc' = "crashed"
    /\ UNCHANGED <<remote, retracted, cfg, loop, ticker, sessionAlive, existingData,
                   allStockData, currentPage, foundOverlap, result, err>>
    /\ UNCHANGED <<timeout, retries, tracker, session>>

\* The process is killed at another point of the ticker's processing.
Crash ==
    /\ pc \in {"load", "nav", "setup", "eval", "next", "save", "ret"}
    /\ mode = "single"
    /\ pc' = "crashed"
    /\ UNCHANGED <<remote, retracted, file, cfg, loop, ticker, sessionAlive, existingData,
                   allStockData, currentPage, foundOverlap, result, err, hist>>
    /\ UNCHANGED <<timeout, retries, tracker, session>>

\* After a crash the program can be started again.
Restart ==
    /\ pc = "crashed"
    /\ pc' = "off"
    /\ ProcessMemoryGone
    /\ UNCHANGED <<remote, retracted, file, cfg, loop, ticker>>
    /\ UNCHANGED <<timeout, retries, tracker, session>>

\* Runs for single tickers in which the load may fail and the process may
\* be killed.
NextFaults == Next \/ GsdLoadFails \/ SaveCrash \/ Crash \/ Restart
SpecFaults == Init /\ [][NextFaults]_vars

\* ------------------------------------------------ the dialog listener
MaxHandlers == 1

\* scraper.go:84-95: the listener GetStockData registered on s.ctx gets a
\* page.EventJavascriptDialogOpening while the page is navigated to or
\* worked on, and starts a goroutine.
DialogOpens ==
    /\ pc \in {"nav", "setup", "eval", "next"}
    /\ sessionAlive
    /\ handlers < MaxHandlers
    /\ handlers' = handlers + 1
    /\ UNCHANGED <<scraperState, timeout, retries, tracker, closeLog>>

\* scraper.go:87-93: the goroutine reads s.ctx and runs
\* page.HandleJavaScriptDialog(true) on it; the error is only logged.
HandlerRuns ==
    /\ handlers > 0
    /\ pc # "exited"
    /\ handlers' = handlers - 1
    /\ UNCHANGED <<scraperState, timeout, retries, tracker, closeLog>>

\* Batches during which the page opens dialogs.
NextDialog == NextBatch \/ DialogOpens \/ HandlerRuns
SpecDialog == InitBatch /\ [][NextDialog]_vars

\* ------------------------------------------------------- Scraper.Close
\* What chromedp.Run(ctx, chromedp.Stop()) can return under the context
\* with the 10 s timeout (scraper.go:299-304).
StopOutcomes == {"stopped", "failed", "timed out"}

\* A Close that force-terminates only after a graceful stop that succeeded.
Close_CancelsAfterCleanStopOnly ==
    /\ pc = "cleanup"
    /\ \E stop \in StopOutcomes :
        /\ closeLog' = closeLog \o (IF stop = "stopped" THEN <<stop, "cancel">> ELSE <<stop>>)
        /\ sessionAlive' = (stop # "stopped")
    /\ pc' = "closed"
    /\ UNCHANGED <<remote, retracted, file, cfg, loop, ticker, existingData, allStockData,
                   currentPage, foundOverlap, result, err, hist, timeout, retries, tracker, handlers>>

\* Scraper.Close (scraper.go:295-311). s.cancel is the function
\* initializeScraper passed to NewScraper (main.go:113, 127), never nil:
\* the graceful stop is tried, its error is only printed, and s.cancel()
\* is called.
Close ==
    /\ pc = "cleanup"
    /\ \E stop \in StopOutcomes : closeLog' = closeLog \o <<stop, "cancel">>
    /\ sessionAlive' = FALSE
    /\ pc' = "closed"
    /\ UNCHANGED <<remote, retracted, file, cfg, loop, ticker, existingData, allStockData,
                   currentPage, foundOverlap, result, err, hist, timeout, retries, tracker, handlers>>

\* main.go:188-191, 207-213 with -ticker: processSingleTicker returned nil
\* and main returns, which runs the deferred cleanup (main.go:179-184).
SingleReturn ==
    /\ pc = "ret"
    /\ mode = "single"
    /\ err = Nil
    /\ pc' = "cleanup"
    /\ UNCHANGED <<remote, retracted, file, cfg, loop, ticker, sessionAlive, existingData,
                   allStockData, currentPage, foundOverlap, result, err, hist>>
    /\ UNCHANGED <<timeout, retries, tracker, session>>

\* main.go:189-191: processSingleTicker returned an error and logger.Fatal
\* ends the process (os.Exit(1)); deferred functions do not run.
SingleFatal ==
    /\ pc = "ret"
    /\ mode = "single"
    /\ err # Nil
    /\ pc' = "fatal"
    /\ UNCHANGED <<remote, retracted, file, cfg, loop, ticker, sessionAlive, existingData,
                   allStockData, currentPage, foundOverlap, result, err, hist>>
    /\ UNCHANGED <<timeout, retries, tracker, session>>

\* The process ended, after the cleanup or in os.Exit; it can be started
\* again.
ProcessExit ==
    /\ pc \in {"closed", "fatal"}
    /\ pc' = "off"
    /\ ProcessMemoryGone
    /\ closeLog' = <<>>
    /\ UNCHANGED <<remote, retracted, file, cfg, loop, ticker>>
    /\ UNCHANGED <<timeout, retries, tracker, handlers>>

\* Runs for single tickers with main's cleanup.
NextClose ==
    \/ StartSingle \/ processSingleTicker \/ RemoteGain
    \/ SingleReturn \/ SingleFatal \/ Close \/ ProcessExit
SpecClose == Init /\ [][NextClose]_vars

\* ------------------------------------------------------ the ticker list
MaxLines == 3
Fields == {"Ticker", "A", "B"}

\* A line of the file named by -file: no field (a blank line), or one or two
\* fields.
Lines == {<<>>} \cup {<<a>> : a \in Fields} \cup {<<a, b>> : a \in Fields, b \in {"A", "B"}}
TickerFiles == UNION {[1..n -> Lines] : n \in 0..MaxLines}

\* csv.Reader.ReadAll with the default settings (part_003:16-17): blank
\* lines are skipped, and a record with another number of fields than the
\* first record is an error.
NonBlank(line) == Len(line) > 0
ReadAll(lines) ==
    LET records == SelectSeq(lines, NonBlank)
    IN  IF \E k \in 1..Len(records) : Len(records[k]) # Len(records[1])
        THEN [records |-> <<>>, err |-> Err("wrong number of fields", "other")]
        ELSE [records |-> records, err |-> Nil]

\* A ReadTickersFromCSV that does not skip the header.
ReadTickersFromCSV_KeepsHeader(lines) ==
    LET read == ReadAll(lines)
    IN  IF read.err # Nil
        THEN [tickers |-> <<>>, err |-> read.err, panic |-> FALSE]
        ELSE [tickers |-> [k \in 1..Len(read.records) |-> read.records[k][1]],
              err |-> Nil, panic |-> FALSE]

\* utils.ReadTickersFromCSV (part_003:9-28) on a file that can be opened:
\* records[1:] of no record at all is a slice out of range, a panic.
ReadTickersFromCSV(lines) ==
    LET read == ReadAll(lines)
    IN  IF read.err # Nil
        THEN [tickers |-> <<>>, err |-> read.err, panic |-> FALSE]
        ELSE IF Len(read.records) = 0
        THEN [tickers |-> <<>>, err |-> Nil, panic |-> TRUE]
        ELSE [tickers |-> [k \in 1..Len(read.records) - 1 |-> read.records[k + 1][1]],
              err |-> Nil, panic |-> FALSE]

\* main.go:193-198: the list is read; an error ends the program through
\* logger.Fatal.
ReadTickerList ==
    /\ pc = "off"
    /\ LET r == ReadTickersFromCSV(tickerFile)
       IN  /\ tickers' = r.tickers
           /\ err' = r.err
           /\ pc' = IF r.panic THEN "panic" ELSE IF r.err # Nil THEN "fatal" ELSE "listRead"
    /\ mode' = "batch"
    /\ UNCHANGED <<remote, retracted, file, maxPages, runner, tickerFile, loop, ticker,
                   sessionAlive, existingData, allStockData, currentPage, foundOverlap,
                   result, hist>>
    /\ UNCHANGED <<timeout, retries, tracker, session>>

\* The program is started with -file on any file of at most MaxLines lines.
InitTickers ==
    /\ InitCommonBut
    /\ tickerFile \in TickerFiles
    /\ ticker = "A"
    /\ remote = [t \in Tickers |-> <<>>]
    /\ retracted = 0
SpecTickers == InitTickers /\ [][ReadTickerList]_vars

\* --------------------------------------------- main with its preflight
\* Mutant of validateConfig: maxPages is not looked at.
validateConfig_IgnoresMaxPages ==
    IF timeout <= 0 THEN Err("Config Validation check failed", "invalid timeout value")
    ELSE Nil

\* Scraper.validateConfig (scraper.go:340-351) as PreflightCheck wraps its
\* error (scraper.go:332).  s.config is not nil: LoadConfig returned it.
validateConfig ==
    IF timeout <= 0 THEN Err("Config Validation check failed", "invalid timeout value")
    ELSE IF maxPages <= 0
    THEN Err("Config Validation check failed", "invalid max pages value")
    ELSE Nil

\* main.go:131-172: the flags are parsed, the configuration file is loaded
\* with any numbers in it (yaml.Unmarshal checks none) and
\* initializeScraper launched the browser.
MainStart ==
    /\ pc = "off"
    /\ timeout' \in -1..1
    /\ maxPages' \in -1..MaxPagesCfg
    /\ \/ /\ mode' = "single"
          /\ UNCHANGED <<runner, tickers>>
       \/ /\ mode' = "batch"
          /\ \E n \in 0..MaxTickers : tickers' = TickerList(n)
          /\ runner' \in {"main", "scraper"}
    /\ sessionAlive' = TRUE
    /\ pc' = "preflight"
    /\ UNCHANGED <<remote, retracted, file, loop, ticker, existingData,
                   allStockData, currentPage, foundOverlap, result, err, hist,
                   retries, tickerFile, tracker, session>>

\* main.go:174-191, 193-200 and Scraper.PreflightCheck (scraper.go:318-338):
\* the checks run in order and the first that fails ends the program
\* through logger.Fatal; otherwise main goes on to processSingleTicker or
\* to processTickerList.
PreflightCheck ==
    /\ pc = "preflight"
    /\ IF validateConfig # Nil
       THEN /\ err' = validateConfig
            /\ pc' = "fatal"
            /\ UNCHANGED <<sessionAlive, idx, hist>>
       ELSE \E dirs \in BOOLEAN, launch \in RunOutcomes, network \in RunOutcomes :
            IF ~dirs
            THEN /\ err' = Err("Directory Structure check failed", "other")
                 /\ pc' = "fatal"
                 /\ UNCHANGED <<sessionAlive, idx, hist>>
            ELSE IF launch # "ok"
            THEN /\ err' = Err("Browser Launch check failed", Cause(launch))
                 /\ pc' = "fatal"
                 /\ sessionAlive' = (launch # "canceled")
                 /\ UNCHANGED <<idx, hist>>
            ELSE IF network # "ok"
            THEN /\ err' = Err("Network Settings check failed", Cause(network))
                 /\ pc' = "fatal"
                 /\ sessionAlive' = (network # "canceled")
                 /\ UNCHANGED <<idx, hist>>
            ELSE /\ err' = Nil
                 /\ pc' = IF mode = "single" THEN "load" ELSE "iter"
                 /\ idx' = 0
                 /\ hist' = FreshHist(file[ticker])
                 /\ UNCHANGED sessionAlive
    /\ UNCHANGED <<remote, retracted, file, cfg, lastSleep, batchErr, ticker,
                   existingData, allStockData, currentPage, foundOverlap,
                   result, timeout, retries, tracker, session>>

\* Runs of main() with any configuration, for a single ticker or a list.
main == MainStart \/ PreflightCheck \/ processSingleTicker \/ processTickerList \/ SingleExit
SpecMain == InitBatch /\ [][main]_vars

\* ------------------------------------ utils.PerformanceTracker: the calls
\* What the tracker's code leaves alone.
scraper == <<remote, retracted, file, maxPages, mode, runner, tickers, tickerFile, idx, pc,
             ticker, sessionAlive, existingData, allStockData, currentPage,
             foundOverlap, result, err, lastSleep, batchErr, hist, timeout, retries, session>>

Top(stack) == IF Len(stack) = 0 THEN 0 ELSE stack[Len(stack)]

\* PerformanceTracker.StartStep, performance.go:46: pt.mu.Lock().
StartStepLock(t) ==
    /\ thr[t].pc = "idle"
    /\ Len(nodes) < MaxNodes
    /\ mu = 0
    /\ mu' = t
    /\ \E name \in StepNames :
        thr' = [thr EXCEPT ![t] = [@ EXCEPT !.pc = "StartStep:49", !.name = name]]
    /\ UNCHANGED <<nodes, steps, currentStep, aggregates, ref, scraper>>

\* performance.go:49-58: the step is allocated and appended to the open
\* step's SubSteps, or to pt.steps when no step is open.  The reference
\* tracker pushes the step as a child of the top of its stack.
StartStepLink(t) ==
    /\ thr[t].pc = "StartStep:49"
    /\ LET step == Len(nodes) + 1
           linked == IF currentStep # 0
                     THEN [nodes EXCEPT ![currentStep].SubSteps = Append(@, step)]
                     ELSE nodes
       IN  /\ nodes' = Append(linked, StepTiming(thr[t].name))
           /\ steps' = IF currentStep # 0 THEN steps ELSE Append(steps, step)
           /\ ref' = [ref EXCEPT !.parent = Append(@, Top(ref.stack)),
                                 !.stack = Append(@, step)]
    /\ thr' = [thr EXCEPT ![t].pc = "StartStep:59"]
    /\ UNCHANGED <<currentStep, aggregates, mu, scraper>>

\* performance.go:59: pt.currentStep = step.
StartStepCursor(t) ==
    /\ thr[t].pc = "StartStep:59"
    /\ currentStep' = Len(nodes)
    /\ thr' = [thr EXCEPT ![t].pc = "StartStep:unlock"]
    /\ UNCHANGED <<nodes, steps, aggregates, mu, ref, scraper>>

\* The deferred pt.mu.Unlock() of StartStep (performance.go:47).
StartStepUnlock(t) ==
    /\ thr[t].pc = "StartStep:unlock"
    /\ mu' = 0
    /\ thr' = [thr EXCEPT ![t].pc = "idle"]
    /\ UNCHANGED <<nodes, steps, currentStep, aggregates, ref, scraper>>

\* PerformanceTracker.EndStep, performance.go:64: pt.mu.Lock().
EndStepLock(t) ==
    /\ thr[t].pc = "idle"
    /\ mu = 0
    /\ mu' = t
    /\ thr' = [thr EXCEPT ![t].pc = "EndStep:67"]
    /\ UNCHANGED <<nodes, steps, currentStep, aggregates, ref, scraper>>

\* An EndStep that, without an open step, records an unnamed root step.
EndStepBody_RecordsUnnamedStep(t) ==
    /\ thr[t].pc = "EndStep:67"
    /\ IF currentStep # 0
       THEN /\ \E d \in 1..MaxDuration :
                nodes' = [nodes EXCEPT ![currentStep].Duration = d]
            /\ thr' = [thr EXCEPT ![t].pc = "updateAggregates:121"]
            /\ ref' = [ref EXCEPT !.stack = SubSeq(@, 1, Len(@) - 1),
                                  !.closed = @ \cup {currentStep}]
            /\ UNCHANGED steps
       ELSE /\ thr' = [thr EXCEPT ![t].pc = "EndStep:unlock"]
            /\ IF Len(nodes) < MaxNodes
               THEN /\ nodes' = Append(nodes, StepTiming(""))
                    /\ steps' = Append(steps, Len(nodes) + 1)
               ELSE UNCHANGED <<nodes, steps>>
            /\ UNCHANGED ref
    /\ UNCHANGED <<currentStep, aggregates, mu, scraper>>

\* performance.go:67-69.  Without an open step nothing is done.  With one,
\* its Duration is set and updateAggregates is called, whose first
\* statement is pt.mu.Lock() (performance.go:121): the thread holds pt.mu
\* already and a sync.Mutex is not reentrant, so the thread waits there for
\* ever (or the runtime ends the process when no goroutine can run).  The
\* body of updateAggregates and the rest of EndStep (124-148, 71-80) are
\* never executed.  The reference tracker pops its stack.
EndStepBody(t) ==
    /\ thr[t].pc = "EndStep:67"
    /\ IF currentStep # 0
       THEN /\ \E d \in 1..MaxDuration :
                nodes' = [nodes EXCEPT ![currentStep].Duration = d]
            /\ thr' = [thr EXCEPT ![t].pc = "updateAggregates:121"]
            /\ ref' = [ref EXCEPT !.stack = SubSeq(@, 1, Len(@) - 1),
                                  !.closed = @ \cup {currentStep}]
       ELSE /\ thr' = [thr EXCEPT ![t].pc = "EndStep:unlock"]
            /\ UNCHANGED <<nodes, ref>>
    /\ UNCHANGED <<steps, currentStep, aggregates, mu, scraper>>

\* The deferred pt.mu.Unlock() of EndStep (performance.go:65).
EndStepUnlock(t) ==
    /\ thr[t].pc = "EndStep:unlock"
    /\ mu' = 0
    /\ thr' = [thr EXCEPT ![t].pc = "idle"]
    /\ UNCHANGED <<nodes, steps, currentStep, aggregates, ref, scraper>>

\* PerformanceTracker.writeStepReport (performance.go:110-117): the line
\* of the step, then the lines of its sub-steps one level deeper.
RECURSIVE writeStepReport(_, _)
writeStepReport(step, level) ==
    <<[level |-> level, Name |-> nodes[step].Name, Duration |-> nodes[step].Duration]>>
    \o Concat([k \in 1..Len(nodes[step].SubSteps) |->
                  writeStepReport(nodes[step].SubSteps[k], level + 1)])

\* PerformanceTracker.GenerateReport, performance.go:99-103: the range
\* over pt.steps reads the slice once.  pt.mu is not locked.
GenerateReportBegin(t) ==
    /\ thr[t].pc = "idle"
    /\ thr' = [thr EXCEPT ![t] = [@ EXCEPT !.pc = "GenerateReport:104", !.roots = steps]]
    /\ UNCHANGED <<nodes, steps, currentStep, aggregates, mu, ref, scraper>>

\* performance.go:103-107: the steps are written as they are when read.
GenerateReportEnd(t) ==
    /\ thr[t].pc = "GenerateReport:104"
    /\ thr' = [thr EXCEPT ![t] =
                 [@ EXCEPT !.pc = "idle", !.roots = <<>>,
                           !.out = Concat([k \in 1..Len(thr[t].roots) |->
                                              writeStepReport(thr[t].roots[k], 0)])]]
    /\ UNCHANGED <<nodes, steps, currentStep, aggregates, mu, ref, scraper>>

\* PerformanceTracker.GenerateAggregateReport, performance.go:152-160: the
\* buckets of pt.aggregates are collected.  pt.mu is not locked.
GenerateAggregateReportBegin(t) ==
    /\ thr[t].pc = "idle"
    /\ thr' = [thr EXCEPT ![t].pc = "GenerateAggregateReport:158"]
    /\ UNCHANGED <<nodes, steps, currentStep, aggregates, mu, ref, scraper>>

\* performance.go:161-183: the buckets are sorted by Total, largest first
\* (the order of equal totals is not determined), and written.
GenerateAggregateReportEnd(t) ==
    /\ thr[t].pc = "GenerateAggregateReport:158"
    /\ \E order \in [1..Cardinality(DOMAIN aggregates) -> DOMAIN aggregates] :
        /\ \A j, k \in DOMAIN order : j # k => order[j] # order[k]
        /\ \A j, k \in DOMAIN order :
              j < k => aggregates[order[j]].Total >= aggregates[order[k]].Total
        /\ thr' = [thr EXCEPT ![t] =
                     [@ EXCEPT !.pc = "idle",
                               !.out = [k \in DOMAIN order |-> aggregates[order[k]]]]]
    /\ UNCHANGED <<nodes, steps, currentStep, aggregates, mu, ref, scraper>>

StartStep(t) == StartStepLock(t) \/ StartStepLink(t) \/ StartStepCursor(t) \/ StartStepUnlock(t)
EndStep(t) == EndStepLock(t) \/ EndStepBody(t) \/ EndStepUnlock(t)
GenerateReport(t) == GenerateReportBegin(t) \/ GenerateReportEnd(t)
GenerateAggregateReport(t) == GenerateAggregateReportBegin(t) \/ GenerateAggregateReportEnd(t)

\* The scraper at rest: the state in which the tracker is called by the
\* threads in any order, or calculatePriceChanges on its own.
InitAtRest ==
    /\ InitCommon
    /\ ticker = "A"
    /\ remote = [t \in Tickers |-> <<>>]
    /\ retracted = 0

NextTracker ==
    \E t \in Threads :
        StartStep(t) \/ EndStep(t) \/ GenerateReport(t) \/ GenerateAggregateReport(t)
SpecTracker == InitAtRest /\ [][NextTracker]_vars

\* ------------------------------------- calculatePriceChanges on its own
\* A series of rows, newest first, with the given close texts; Change and
\* ChangePerc are Go's zero value, as in the rows GetStockData decodes and
\* the rows loadExistingData reads.
CloseTexts == {CloseTable[k] : k \in 1..Len(CloseTable)}
SeriesRows(closes) ==
    [k \in 1..Len(closes) |->
        [PageRow(Len(closes) + 1 - k) EXCEPT !.ClosePrice = closes[k]]]

\* Mutant of Annotate: the pass is given up at the first close that does
\* not parse, and the rows after it keep their defaults.
Annotate_StopsAtParseFailure ==
    /\ pc = "off"
    /\ \E n \in 0..MaxSeries : \E closes \in [1..n -> CloseTexts] :
        LET data == SeriesRows(closes)
            bad == {k \in 1..n : ~ParseFloat(closes[k]).ok}
            stop == IF bad = {} THEN n + 1 ELSE CHOOSE k \in bad : \A j \in bad : k <= j
            done == calculatePriceChanges(data)
        IN  /\ allStockData' = data
            /\ result' = [data |-> [k \in 1..n |-> IF k + 1 < stop THEN done[k] ELSE data[k]],
                          err |-> Nil]
    /\ pc' = "annotated"
    /\ UNCHANGED <<remote, retracted, file, cfg, loop, ticker, sessionAlive,
                   existingData, currentPage, foundOverlap, err, hist, timeout, retries, tracker, session>>

\* Scraper.calculatePriceChanges (scraper.go:477-504) called with a series
\* of at most MaxSeries rows: allStockData is what it was called with and
\* result.data what it returned.
Annotate ==
    /\ pc = "off"
    /\ \E n \in 0..MaxSeries : \E closes \in [1..n -> CloseTexts] :
        /\ allStockData' = SeriesRows(closes)
        /\ result' = [data |-> calculatePriceChanges(SeriesRows(closes)), err |-> Nil]
    /\ pc' = "annotated"
    /\ UNCHANGED <<remote, retracted, file, cfg, loop, ticker, sessionAlive,
                   existingData, currentPage, foundOverlap, err, hist, timeout, retries, tracker, session>>

SpecAnnotate == InitAtRest /\ [][Annotate]_vars

\* =============================================================== properties
Range(f) == {f[k] : k \in DOMAIN f}
FetchReturned == pc \in {"save", "ret"}
LoopFailed == hist.evalFailed > 0 \/ hist.nextFailed > 0

\* The fields of a row the site delivers (all but Change and ChangePerc),
\* of a row in memory and of a record of the file.
RowCore(r) ==
    <<r.Date, r.OpenPrice, r.HighPrice, r.LowPrice, r.ClosePrice, r.Volume,
      r.TotalShares, r.NumTrades>>
RecordCore(rec) ==
    <<rec[1], rec[2], rec[3], rec[4], rec[5], rec[8], rec[9], rec[10]>>

\* C1: when a page-row evaluation or an advance-to-next-page call failed
\* during GetStockData, SaveToCSV is not invoked for the ticker and its file
\* keeps the content it had before.
C1_FailedFetchNeverSaved ==
    LoopFailed => (~hist.saveInvoked /\ file[ticker] = hist.fileBefore)

\* C7: every failure of a Page Capability call inside the pagination loop
\* makes GetStockData return a non-nil error, and the failed call is not
\* issued again: a failed evaluation of page k is the k-th and last
\* evaluation, a failed advance from page k the k-th and last advance.
C7_LoopFailureReturnsError ==
    /\ (FetchReturned /\ LoopFailed) => result.err # Nil
    /\ hist.evalFailed > 0 => (hist.evals = hist.evalFailed /\ FetchReturned)
    /\ hist.nextFailed > 0 =>
           (hist.nexts = hist.nextFailed /\ hist.evals = hist.nextFailed
            /\ FetchReturned)

\* The rows of the pages evaluated by the current fetch, as the site
\* delivered them, and the rows of them that the fetch kept (the returned
\* rows in front of the existing ones).
FetchedRows == Concat(hist.rawPages)
KeptRows == SubSeq(result.data, 1, Len(result.data) - Len(existingData))
MergeReturned ==
    /\ pc = "save"
    /\ Len(existingData) > 0
    /\ NoDuplicates(DatesOf(existingData))
    /\ hist.rawPages # <<>>
    /\ \A p \in 1..Len(hist.rawPages) : Len(hist.rawPages[p]) > 0
    /\ NoDuplicates(DatesOf(FetchedRows))
MergeHasNoDuplicate ==
    /\ NoDuplicates(DatesOf(result.data))
    /\ Range(DatesOf(KeptRows)) \cap Range(DatesOf(existingData)) = {}

\* No existing date is fetched before the date of the existing head.
HeadFetchedFirst ==
    \A k \in 1..Len(FetchedRows) :
        FetchedRows[k].Date \in Range(DatesOf(existingData)) =>
            \E j \in 1..k : FetchedRows[j].Date = existingData[1].Date

\* C2 as stated: for every non-empty existing history with unique dates and
\* every sequence of non-empty fetched pages with unique dates, the merged
\* history holds no date twice and the kept rows hold no existing date.
C2_MergeNeverDuplicates == MergeReturned => MergeHasNoDuplicate

\* C2 as amended: the same, for the fetches in which no existing date is
\* fetched before the date of the existing head.
C2_MergeNoDuplicateWhenHeadFirst ==
    (MergeReturned /\ HeadFetchedFirst) => MergeHasNoDuplicate

\* A fetch over two pages that found the existing head and kept new rows.
C2_Witness ==
    /\ MergeReturned
    /\ HeadFetchedFirst
    /\ foundOverlap
    /\ Len(hist.rawPages) = 2
    /\ Len(KeptRows) > 0

\* The rows a fetch is to keep from the pages it evaluated: the pages
\* before the first page that holds the date of the existing head, then
\* that page up to the first row of that date; every page when there is
\* no existing history or no page holds that date.
RowsToKeep(pages, existing) ==
    LET holds(p) == \E k \in 1..Len(pages[p]) : pages[p][k].Date = existing[1].Date
        hit == IF Len(existing) = 0 THEN {} ELSE {p \in 1..Len(pages) : holds(p)}
    IN  IF hit = {}
        THEN Concat(pages)
        ELSE LET p == CHOOSE q \in hit : \A o \in hit : q <= o
                 i == CHOOSE k \in 1..Len(pages[p]) :
                          /\ pages[p][k].Date = existing[1].Date
                          /\ \A j \in 1..(k - 1) : pages[p][j].Date # existing[1].Date
             IN  Concat(SubSeq(pages, 1, p - 1)) \o SubSeq(pages[p], 1, i - 1)

\* C3: the merged history is the rows to keep followed by the whole
\* existing history, which is the file's records in their order with their
\* date, price and volume fields.
C3_MergedIsKeptThenExisting ==
    pc = "save" =>
        [k \in 1..Len(result.data) |-> RowCore(result.data[k])]
          = [k \in 1..Len(RowsToKeep(hist.rawPages, existingData)) |->
                RowCore(RowsToKeep(hist.rawPages, existingData)[k])]
            \o [k \in 1..Len(hist.fileBefore.records) |->
                RecordCore(hist.fileBefore.records[k])]

\* Existing [3,2,1] and the pages [5,4], [3,2] give [5,4,3,2,1].
C3_Witness ==
    /\ pc = "save"
    /\ DatesOf(existingData) = <<3, 2, 1>>
    /\ [p \in 1..Len(hist.rawPages) |-> DatesOf(hist.rawPages[p])] = <<<<5, 4>>, <<3, 2>>>>
    /\ DatesOf(result.data) = <<5, 4, 3, 2, 1>>

NothingNewer ==
    /\ Len(hist.fileBefore.records) > 0
    /\ \A k \in 1..Len(remote[ticker]) :
           remote[ticker][k] <= hist.fileBefore.records[1][1]
SpecBatchFair == SpecBatch /\ WF_vars(NextBatch)

\* C6: when the evaluation of page k fails, GetStockData returns an error
\* and no rows, SaveToCSV is not called and the file is as it was; the
\* batch then goes on to the next index, where the next ticker is passed
\* to processSingleTicker (unless scraper.go's refresh before that ticker
\* fails, which skips it).
C6_State ==
    hist.evalFailed > 0 =>
        /\ result.data = <<>>
        /\ result.err # Nil
        /\ ~hist.saveInvoked
        /\ file[ticker] = hist.fileBefore
C6_Step ==
    (mode = "batch" /\ hist.evalFailed > 0) =>
        /\ pc = "ret" => (pc' = "iter" /\ idx' = idx + 1 /\ file' = file)
        /\ (pc = "iter" /\ idx < Len(tickers)) =>
               \/ pc' = "load" /\ ticker' = tickers[idx + 1] /\ idx' = idx
               \/ runner = "scraper" /\ hist'.refresh = "failed"
C8_Step == (mode = "batch" /\ pc # "off") => (idx' = idx \/ idx' = idx + 1)
C9_NavFailureRefreshes ==
    mode = "batch" =>
        /\ pc = "load" => ~hist.navPending
        /\ (pc = "iter" /\ hist.navFailed = "canceled") => hist.failedLogged

\* C10: whenever refreshBrowser fails in a batch, proactively or
\* reactively, the loop sleeps 30 s and is at its next iteration (or at
\* the end of the list) without having processed the ticker further.
C10_RefreshFailureBacksOff30 ==
    (mode = "batch" /\ hist.refresh = "failed") =>
        /\ pc \in {"iter", "exited"}
        /\ lastSleep = RefreshBackoff
        /\ ~hist.saveInvoked

\* ------------------------------------------------ the performance tracker
\* No thread is inside StartStep or EndStep, except threads that wait for
\* ever for the lock they hold themselves.
WaitsForOwnLock(t) == thr[t].pc = "updateAggregates:121" /\ mu = t
TrackerQuiet ==
    \A t \in Threads :
        \/ thr[t].pc \in {"idle", "GenerateReport:104", "GenerateAggregateReport:158"}
        \/ WaitsForOwnLock(t)
Count(name) == IF name \in DOMAIN aggregates THEN aggregates[name].Count ELSE 0
ClosedNamed(name) == {n \in ref.closed : nodes[n].Name = name}
ParentOf(n) ==
    IF \E m \in 1..Len(nodes) : n \in Range(nodes[m].SubSteps)
    THEN CHOOSE m \in 1..Len(nodes) : n \in Range(nodes[m].SubSteps)
    ELSE 0

\* C13: every step node that endStep closed is counted exactly once in the
\* aggregate bucket of its name.
C13_ClosedStepsCountedOnce ==
    TrackerQuiet =>
        \A name \in StepNames : Count(name) = Cardinality(ClosedNamed(name))

\* C14: the open-step cursor and the tree are those of the reference
\* tracker: the cursor is the top of its stack and every step is the child
\* of the step that was on top when it was started.
C14_CursorMatchesReferenceStack ==
    TrackerQuiet =>
        /\ currentStep = Top(ref.stack)
        /\ [n \in 1..Len(nodes) |-> ParentOf(n)] = ref.parent
        /\ steps = SelectSeq([n \in 1..Len(nodes) |-> n], LAMBDA n : ref.parent[n] = 0)

\* C15: a thread inside StartStep, EndStep, GenerateReport or
\* GenerateAggregateReport holds pt.mu, so no report reads the structures
\* while another thread is between two writes of an update.
C15_EveryAccessHoldsLock ==
    /\ \A t \in Threads : thr[t].pc # "idle" => mu = t
    /\ \A t, u \in Threads :
          thr[t].pc \in {"GenerateReport:104", "GenerateAggregateReport:158"}
              => thr[u].pc \notin {"StartStep:59", "EndStep:67"}

\* ------------------------------------------------- the change calculation
Closes(data) == [k \in 1..Len(data) |-> ParseFloat(data[k].ClosePrice)]
AllParse(data) == \A k \in 1..Len(data) : Closes(data)[k].ok
\* The fraction x is the rational a / b (b # 0).
IsRatio(x, a, b) == x.den # 0 /\ x.num * b = a * x.den
NoChange(row) == row.Change = 0 /\ row.ChangePerc = Zero
Computed(row, cur, prev) ==
    /\ row.Change = cur - prev
    /\ IF prev # 0 THEN IsRatio(row.ChangePerc, (cur - prev) * 100, prev)
                   ELSE row.ChangePerc = Zero

\* C19: for a series whose closes all parse, every row but the last gets
\* change = close[i] - close[i+1] and changePercent = change / close[i+1] * 100
\* (0 when close[i+1] is 0), and the last row keeps 0 and 0; the closes
\* 110, 100, 90 give 10 and 10.00%, 10 and 11.11%, 0 and 0.
C19_ChangesOfParsedSeries ==
    (pc = "annotated" /\ AllParse(allStockData)) =>
        /\ Len(result.data) = Len(allStockData)
        /\ \A i \in 1..Len(result.data) :
              IF i < Len(result.data)
              THEN Computed(result.data[i], Closes(allStockData)[i].val,
                            Closes(allStockData)[i + 1].val)
              ELSE NoChange(result.data[i])
        /\ [k \in 1..Len(allStockData) |-> allStockData[k].ClosePrice] = <<"110", "100", "90">>
              => /\ [k \in 1..3 |-> result.data[k].Change] = <<10, 10, 0>>
                 /\ [k \in 1..3 |-> FormatChangePerc(result.data[k].ChangePerc).digits]
                        = <<1000, 1111, 0>>

\* The closes 110, 100, 90 were annotated.
C19_Witness ==
    /\ pc = "annotated"
    /\ [k \in 1..Len(allStockData) |-> allStockData[k].ClosePrice] = <<"110", "100", "90">>
    /\ result.data[2].ChangePerc # Zero

\* C20: when closes fail to parse, the series is returned whole and in
\* order; a row whose close or whose successor's close does not parse keeps
\* change 0 and changePercent 0, and every other row but the last gets its
\* computed values.
C20_ParseFailureSkipsRowOnly ==
    (pc = "annotated" /\ ~AllParse(allStockData)) =>
        /\ [k \in 1..Len(result.data) |-> RowCore(result.data[k])]
              = [k \in 1..Len(allStockData) |-> RowCore(allStockData[k])]
        /\ \A i \in 1..Len(result.data) :
              IF i = Len(result.data) THEN NoChange(result.data[i])
              ELSE IF Closes(allStockData)[i].ok /\ Closes(allStockData)[i + 1].ok
              THEN Computed(result.data[i], Closes(allStockData)[i].val,
                            Closes(allStockData)[i + 1].val)
              ELSE NoChange(result.data[i])

\* The first close does not parse and the second row was still annotated.
C20_Witness ==
    /\ pc = "annotated"
    /\ Len(allStockData) = 3
    /\ ~Closes(allStockData)[1].ok
    /\ NoChange(result.data[1])
    /\ result.data[2].Change = 10

\* ------------------------------------------------- the pagination loop
Cores(rows) == [k \in 1..Len(rows) |-> RowCore(rows[k])]
HoldsHead(page) ==
    /\ Len(existingData) > 0
    /\ \E k \in 1..Len(page) : page[k].Date = existingData[1].Date
ShortPage(page) == Len(page) > 0 /\ Len(page) < PageSize
LoopLeft == pc \in {"save", "ret"}

\* C16: a fetched page without overlap that has fewer rows than the page
\* size is the last page fetched, whatever maxPages is: no advance follows
\* it, the fetch returns, and the kept rows are the rows of all the pages
\* up to and including it.
C16_ShortPageEndsFetch ==
    \A k \in 1..Len(hist.rawPages) :
        (ShortPage(hist.rawPages[k]) /\ ~HoldsHead(hist.rawPages[k])) =>
            /\ k = Len(hist.rawPages)
            /\ hist.nexts = k - 1
            /\ LoopLeft
            /\ result.err = Nil
            /\ Cores(KeptRows) = Cores(Concat(hist.rawPages))

\* A short first page without overlap ended the fetch although maxPages
\* allowed a second page.
C16_Witness ==
    /\ pc = "save"
    /\ Len(hist.rawPages) = 1
    /\ ShortPage(hist.rawPages[1])
    /\ ~HoldsHead(hist.rawPages[1])
    /\ currentPage < maxPages
    /\ Len(KeptRows) = Len(hist.rawPages[1])

\* C17: while the loop runs 1 <= currentPage <= maxPages, at most maxPages
\* pages are evaluated for a ticker, and the loop is left.
C17_LoopBoundedByMaxPages ==
    /\ [](pc \in {"eval", "next"} => (1 <= currentPage /\ currentPage <= maxPages))
    /\ [](hist.evals <= maxPages /\ Len(hist.rawPages) <= maxPages)
    /\ (pc = "eval") ~> LoopLeft

\* maxPages full pages were evaluated and the fetch returned although the
\* site lists more rows.
C17_Witness ==
    /\ pc = "save"
    /\ mode = "batch"
    /\ hist.evals = maxPages
    /\ currentPage = maxPages
    /\ Len(hist.rawPages[maxPages]) = PageSize
    /\ Len(remote[ticker]) > maxPages * PageSize

\* C18: a fetched page that holds the date of the existing head, first at
\* index i, is the last page fetched: exactly its rows before i are kept
\* after the rows of the pages before it, no advance follows it and the
\* fetch returns, whatever the page's length and currentPage are.
C18_OverlapPageCutAndLast ==
    \A k \in 1..Len(hist.rawPages) :
        HoldsHead(hist.rawPages[k]) =>
            LET page == hist.rawPages[k]
                i == CHOOSE j \in 1..Len(page) :
                        /\ page[j].Date = existingData[1].Date
                        /\ \A m \in 1..(j - 1) : page[m].Date # existingData[1].Date
            IN  /\ k = Len(hist.rawPages)
                /\ hist.nexts = k - 1
                /\ LoopLeft
                /\ foundOverlap
                /\ result.err = Nil
                /\ Cores(KeptRows)
                     = Cores(Concat(SubSeq(hist.rawPages, 1, k - 1)) \o SubSeq(page, 1, i - 1))

\* A full first page held the existing head at its last index; the rows
\* before it were kept and the second page, which maxPages allowed, was
\* not fetched.
C18_Witness ==
    /\ pc = "save"
    /\ Len(hist.rawPages) = 1
    /\ Len(hist.rawPages[1]) = PageSize
    /\ Len(existingData) > 0
    /\ hist.rawPages[1][PageSize].Date = existingData[1].Date
    /\ currentPage < maxPages
    /\ Len(KeptRows) = PageSize - 1
    /\ Len(remote[ticker]) > PageSize

\* ------------------------------------------------- the proactive refresh
Fetching == pc \in {"load", "nav", "setup", "eval", "next", "save"}
RefreshDue(i) == i > 0 /\ i % RefreshEvery = 0
\* The entities at the list positions 6, 11, ... are processed on a session
\* that was recreated just before them.
RefreshedWhenDue ==
    (mode = "batch" /\ Fetching /\ RefreshDue(idx)) =>
        (hist.refresh = "ok" /\ hist.refreshKind = "proactive")
\* A refresh happens at those positions or after a failed entity only.
RefreshOnlyWhenDue ==
    mode = "batch" =>
        /\ hist.refreshKind = "proactive" =>
               RefreshDue(IF pc \in {"iter", "exited"} THEN idx - 1 ELSE idx)
        /\ hist.refreshKind = "reactive" => (err # Nil /\ hist.failedLogged)
\* No entity is processed on a session whose probe failed.
ProbePassedBeforeFetch == (mode = "batch" /\ Fetching) => ~hist.probeFailed

\* C11: in a batch the session is recreated before the entities at the
\* positions 6, 11, ... and at no other point unless an entity failed, and
\* entity processing goes on only after the new session passed its probe.
C11_ProactiveRefreshEveryFive ==
    RefreshedWhenDue /\ RefreshOnlyWhenDue /\ ProbePassedBeforeFetch

\* ------------------------------------------------------ the configuration
ConfigInvalid == timeout <= 0 \/ maxPages <= 0
C12_State == ConfigInvalid => (pc \in {"off", "preflight", "fatal"} /\ hist.evals = 0)
C12_Step == (pc = "preflight" /\ ConfigInvalid) => (pc' = "fatal" /\ err' # Nil)
\* C12: with a timeout or a maxPages that is not positive the run ends with
\* a fatal error at the preflight check, before GetStockData is called for
\* any entity, for a single ticker and for a list alike.
C12_InvalidConfigIsFatal == [](C12_State) /\ [][C12_Step]_vars

\* A batch run ended at the preflight check for its maxPages alone.
C12_Witness ==
    /\ pc = "fatal"
    /\ mode = "batch"
    /\ Len(tickers) > 0
    /\ timeout > 0
    /\ maxPages <= 0
    /\ err = Err("Config Validation check failed", "invalid max pages value")

\* ------------------------------------------------ the batch's sleeps
\* The entity before index idx was processed (not skipped for a refresh
\* that failed) and the loop is between two iterations or over.
EntityDone ==
    /\ mode = "batch"
    /\ pc \in {"iter", "exited"}
    /\ idx > 0
    /\ ~(hist.refreshKind = "proactive" /\ hist.refresh = "failed")

\* C23: the inter-entity delay is slept after every entity but the last of
\* the list, and nothing is slept after the last, whether it succeeded or
\* failed.
C23_DelayAfterAllButLast ==
    EntityDone =>
        lastSleep = IF idx < Len(tickers) THEN InterTickerDelay ELSE 0

NonNavigationFailure == err # Nil /\ err.msg # "failed to navigate"
C24_State ==
    (EntityDone /\ pc = "iter" /\ hist.failedLogged /\ NonNavigationFailure) =>
        (hist.refreshKind # "reactive" /\ lastSleep = FailureBackoff)
C24_Step ==
    (mode = "batch" /\ pc = "ret" /\ NonNavigationFailure) =>
        /\ pc' = "iter"
        /\ idx' = idx + 1
        /\ sessionAlive' = sessionAlive
        /\ hist'.refresh = hist.refresh
        /\ lastSleep' = FailureBackoff
\* C24: after a failure that is not a navigation failure (date range, page
\* evaluation, save) no refresh is made for the entity, 10 s are slept and
\* the batch goes on with the next entity.
C24_OtherFailureBacksOff10 == [](C24_State) /\ [][C24_Step]_vars

\* A page evaluation failed on a canceled context under the runner that
\* refreshes: no refresh followed.
C24_Witness ==
    /\ EntityDone
    /\ pc = "iter"
    /\ runner = "scraper"
    /\ err = Err("failed to extract data from page", "context canceled")
    /\ hist.failedLogged
    /\ hist.refresh = "none"
    /\ lastSleep = FailureBackoff

\* C25: an empty page is the last page requested; the fetch returns
\* without error the rows of the pages before it, followed by the existing
\* history, annotated.
C25_EmptyPageEndsFetch ==
    \A k \in 1..Len(hist.rawPages) :
        Len(hist.rawPages[k]) = 0 =>
            /\ k = Len(hist.rawPages)
            /\ hist.nexts = k - 1
            /\ hist.evals = k
            /\ LoopLeft
            /\ result.err = Nil
            /\ Cores(KeptRows) = Cores(Concat(SubSeq(hist.rawPages, 1, k - 1)))
            /\ result.data
                 = calculatePriceChanges(Concat(SubSeq(hist.rawPages, 1, k - 1)) \o existingData)

\* The second page came back empty after a full first page, with an
\* existing history.
C25_Witness ==
    /\ pc = "save"
    /\ Len(hist.rawPages) = 2
    /\ Len(hist.rawPages[2]) = 0
    /\ Len(existingData) > 0
    /\ Len(result.data) = PageSize + Len(existingData)

\* C26: a thread that called EndStep with a step open never waits for the
\* tracker's lock while it holds that lock itself.
C26_EndStepNeverWaitsForOwnLock == \A t \in Threads : ~WaitsForOwnLock(t)

\* C28: in a batch no entity's fetch starts on a session whose last probe
\* failed.
C28_FetchStartsOnValidatedSession ==
    (mode = "batch" /\ pc = "load") => ~hist.probeFailed

\* ------------------------------------------- the batch's aggregate report
\* C22: when the batch is over, the aggregate report holds step entries of
\* the entities that were processed successfully; here, of the last entity
\* of the list when it was fetched and saved without error.
C22_ReportHoldsStepsOfSuccesses ==
    (mode = "batch" /\ pc = "exited" /\ Len(tickers) > 0
        /\ hist.saveInvoked /\ err = Nil)
    => hist.reportSteps # {}

\* ------------------------------------------------ the durable history
\* The file f holds every row of the file g, and can be read when g could.
HoldsRowsOf(f, g) ==
    /\ g.exists => (f.exists /\ f.header = g.header)
    /\ \A k \in 1..Len(g.records) :
          \E j \in 1..Len(f.records) : RecordCore(f.records[j]) = RecordCore(g.records[k])

\* C21: after a crash at any point of a ticker's processing, the save
\* included, the ticker's file holds every row it held before the run.
C21_CrashKeepsHistory ==
    pc = "crashed" => HoldsRowsOf(file[ticker], hist.fileBefore)

\* C27: after a run that ended with a save, every date the file held before
\* the run is in the file, also when the load of the file failed.
C27_SaveKeepsEveryDate ==
    (pc = "ret" /\ hist.saveInvoked /\ err = Nil) =>
        Range(FileDates(hist.fileBefore)) \subseteq Range(FileDates(file[ticker]))

\* ------------------------------------------------- the session's users
\* C29: while an entity is processed, or the list runner is about to go to
\* the next entity (and may refresh the session), no dialog-handler
\* goroutine is live that uses s.ctx.
C29_SessionUsedByPipelineOnly ==
    handlers > 0 => ~(Fetching \/ (pc = "iter" /\ idx < Len(tickers)))

\* C30: Close tries the graceful stop first and then cancels the session,
\* whatever the graceful stop returned; cancel is never the first thing
\* Close does.
C30_CloseStopsThenCancels ==
    /\ closeLog # <<>> => closeLog[1] \in StopOutcomes
    /\ pc = "closed" => /\ Len(closeLog) = 2
                        /\ closeLog[2] = "cancel"
                        /\ ~sessionAlive

\* Close ran, its graceful stop timed out and the session was canceled.
C30_Witness ==
    /\ pc = "closed"
    /\ Len(closeLog) = 2
    /\ closeLog[1] = "timed out"
    /\ closeLog[2] = "cancel"

\* ------------------------------------------- EndStep without an open step
\* The thread t takes a step of EndStep.
EndStepStepOf(t) ==
    /\ thr'[t].pc # thr[t].pc
    /\ \/ thr'[t].pc \in {"EndStep:67", "EndStep:unlock"}
       \/ thr[t].pc = "EndStep:unlock"

\* C38: no step of an EndStep called while no step is open changes the
\* step trees, the cursor of the open step or the aggregate map.
C38_EndStepWithoutOpenStepIsNoOp ==
    [][\A t \in Threads :
          (EndStepStepOf(t) /\ currentStep = 0) =>
              UNCHANGED <<nodes, steps, currentStep, aggregates>>]_vars

\* A thread went through EndStep's test with no step open.
C38_Witness ==
    \E t \in Threads : thr[t].pc = "EndStep:unlock" /\ currentStep = 0

\* ------------------------------------------------------ save, then load
\* SaveToCSV wrote the rows GetStockData returned.
Saved == pc = "ret" /\ hist.saveInvoked /\ err = Nil

\* C33: loading the file SaveToCSV wrote gives as many rows as were saved,
\* in the same order, each with the Date, Open, High, Low, Close, Volume,
\* TotalShares and NumTrades that were saved.
C33_SaveLoadRoundTrip ==
    Saved => Cores(loadExistingData(file[ticker])) = Cores(result.data)

\* A history of several rows, old and new, was saved.
C33_Witness ==
    /\ Saved
    /\ Len(result.data) >= 3
    /\ Len(hist.fileBefore.records) > 0
    /\ Len(result.data) > Len(hist.fileBefore.records)

\* ------------------------------------------------- nothing to save
\* In a batch, SaveToCSV was called for an entity without a file whose
\* fetch returned no rows and no error.
NothingToSave ==
    /\ mode = "batch"
    /\ pc \in {"ret", "iter", "exited"}
    /\ hist.saveInvoked
    /\ ~hist.fileBefore.exists
    /\ result.err = Nil
    /\ Len(result.data) = 0

\* C34: for an entity without a file whose fetch yields no rows, SaveToCSV
\* returns an error and no file of the entity exists afterwards, and the
\* list runner handles the entity as a failed one (error logged, 10 s
\* back-off).
C34_NothingToSaveFailsEntity ==
    NothingToSave =>
        /\ err = Err("no data to save", "")
        /\ file[ticker] = NoFile
        /\ pc \in {"iter", "exited"} => (hist.failedLogged /\ lastSleep = FailureBackoff)

\* The list runner went on after such an entity.
C34_Witness == NothingToSave /\ pc = "iter" /\ hist.failedLogged

\* ------------------------------------------------- one attempt an entity
\* A step of a batch that starts the fetch of an entity.
FetchStarts == mode = "batch" /\ pc # "load" /\ pc' = "load"

\* C35: in a batch a fetch is started only for the list entry after the
\* last one handled, and the position in the list only moves on, by one,
\* also after a failure and whatever retries is configured: every entry is
\* fetched at most once, in list order.
C35_Step ==
    /\ FetchStarts =>
          /\ pc = "iter"
          /\ idx < Len(tickers)
          /\ idx' = idx
          /\ ticker' = tickers[idx + 1]
    /\ (mode = "batch" /\ pc = "ret") => idx' = idx + 1
    /\ (mode = "batch" /\ pc # "off" /\ idx' # idx) => (idx' = idx + 1 /\ pc' = "iter")
C36_CloseRunsBeforeExit ==
    pc \in {"closed", "fatal"} => closeLog # <<>>

\* ----------------------------------------------------- the list as read
\* The records of the list file: its lines that are not blank.
RowsOf(lines) == SelectSeq(lines, NonBlank)

\* C37: the list read is the first field of every row after the header
\* row, in file order, and nothing else; a file with the header row alone
\* gives the empty list and no error.
C37_ListIsFirstColumnAfterHeader ==
    /\ pc = "listRead" =>
          /\ err = Nil
          /\ Len(tickers) = Len(RowsOf(tickerFile)) - 1
          /\ \A k \in 1..Len(tickers) : tickers[k] = RowsOf(tickerFile)[k + 1][1]
    /\ (pc # "off" /\ Len(RowsOf(tickerFile)) = 1) => (pc = "listRead" /\ tickers = <<>>)

\* A list of two different tickers was read from a file with two columns.
C37_Witness ==
    /\ pc = "listRead"
    /\ Len(tickers) = 2
    /\ tickers[1] # tickers[2]
    /\ Len(RowsOf(tickerFile)[1]) = 2

====
